---- MODULE Spec2Model ----
(***************************************************************************)
(* Model of src/server.py: the MCP tool ai_organiser_save and the token    *)
(* lookup get_integration_token it calls.                                  *)
(*                                                                         *)
(* Text is a sequence of one-character strings, so that split, lower and   *)
(* strip are computed character by character as Python computes them.     *)
(* The module is ASCII: the utterances of the user are written in Latin    *)
(* transliteration ("sohrani v" for the Russian save keyword and its       *)
(* preposition), the opening and closing guillemets are the characters     *)
(* "<" and ">".                                                            *)
(***************************************************************************)
EXTENDS Integers, Sequences, FiniteSets, TLC

VARIABLES
    env_token,          \* os.getenv(INTEGRATION_TOKEN_ENV_VAR): process-wide
    request,            \* per call: the HTTP request the MCP call arrived in
    args,               \* per call: body, project_name, title
    utterance,          \* per call: the user's message that led to the call
    pc,                 \* per call: position inside ai_organiser_save
    integration_token,  \* per call: the local variable of that name
    sent,               \* per call: the requests POSTed to the backend
    res,                \* per call: what supabase_client.post gave back
    ret                 \* per call: the dict the tool returned

vars == <<env_token, request, args, utterance, pc, integration_token, sent, res, ret>>

\* Number of tool calls in flight at once.
NumCalls == 2

Calls == 1..NumCalls

\* Python's None: a value no text equals (every element of a text is one character).
None == <<"None">>

\* ------------------------------------------------------------------ text

\* str.lower() on one character, over the letters the headers use.
LowerChar(ch) ==
    CASE ch = "B" -> "b"
      [] ch = "E" -> "e"
      [] ch = "A" -> "a"
      [] ch = "R" -> "r"
      [] ch = "S" -> "s"
      [] OTHER -> ch

\* str.lower()
Lower(s) == [i \in 1..Len(s) |-> LowerChar(s[i])]

\* The characters str.strip() removes.
IsSpace(ch) == ch \in {" ", "\t"}

\* str.strip(): drop leading and trailing whitespace, keep inner whitespace.
Strip(s) ==
    LET keep == {i \in 1..Len(s) : ~IsSpace(s[i])}
    IN  IF keep = {} THEN <<>>
        ELSE LET lo == CHOOSE i \in keep : \A j \in keep : i <= j
                 hi == CHOOSE i \in keep : \A j \in keep : j <= i
             IN  SubSeq(s, lo, hi)

\* str.split(" ", 1): cut at the first space character only; the result has
\* one part when there is no space, two otherwise.
Split1(s) ==
    LET sp == {i \in 1..Len(s) : s[i] = " "}
    IN  IF sp = {} THEN <<s>>
        ELSE LET k == CHOOSE i \in sp : \A j \in sp : i <= j
             IN  <<SubSeq(s, 1, k - 1), SubSeq(s, k + 1, Len(s))>>

\* Python truthiness of a str | None value: None and "" are falsy.
Truthy(v) == v # None /\ Len(v) > 0

\* ------------------------------------------------------------ constants

BEARER == <<"b", "e", "a", "r", "e", "r">>

\* The anon key is a non-empty literal of the module.
SUPABASE_ANON_KEY == <<"k">>

\* ---------------------------------------------------------------- inputs

\* Texts of the model, written out character by character.
TOKEN_X == <<"x">>
TOKEN_Y == <<"y">>
QUERY_TOKEN == <<"q">>
CUSTOM_TOKEN == <<"h">>
ENV_TOKEN == <<"e">>

\* Values of the Authorization header of an inbound request.
AuthValues ==
    { None,
      <<>>,
      <<"B","e","a","r","e","r"," ","x">>,
      <<"b","e","a","r","e","r"," ","y">>,
      <<"B","E","A","R","E","R"," "," ","x"," ">>,
      <<"B","e","a","r","e","r"," ","x"," ","y">>,
      <<"B","e","a","r","e","r"," ">>,
      <<"B","e","a","r","e","r"," "," ","\t">>,
      <<"B","e","a","r","e","r">>,
      <<"B","e","a","r","e","r","\t","x">>,
      <<"B","a","s","i","c"," ","x">>,
      <<" ","B","e","a","r","e","r"," ","x">> }

\* An inbound HTTP request: its URL query parameter `token` and its headers
\* (a header that is not sent reads as None, as dict.get gives).
HttpRequests(auths, queries, customs) ==
    { [http |-> TRUE, query_token |-> q,
       headers |-> [authorization |-> a, custom |-> h]] :
        a \in auths, q \in queries, h \in customs }

\* A call that arrives outside any HTTP request.
NoHttpRequest ==
    [http |-> FALSE, query_token |-> None,
     headers |-> [authorization |-> None, custom |-> None]]

\* The user's utterances: absent, "napishi plan" (no save keyword),
\* "sohrani eto" (keyword alone), "sohrani v <A>" (keyword, preposition and a
\* name in guillemets).
UTT_PLAN == <<"n","a","p","i","s","h","i"," ","p","l","a","n">>
UTT_SAVE == <<"s","o","h","r","a","n","i"," ","e","t","o">>
UTT_SAVE_TO_A == <<"s","o","h","r","a","n","i"," ","v"," ","<","A",">">>

Utterances == {None, UTT_PLAN, UTT_SAVE, UTT_SAVE_TO_A}

\* Whether text t occurs in text s at position i.
OccursAt(s, t, i) ==
    /\ i + Len(t) - 1 <= Len(s)
    /\ \A k \in 1..Len(t) : s[i + k - 1] = t[k]

\* The trigger keyword of the specification's intent parser, and whether an
\* utterance holds it (case-insensitively; an absent utterance holds nothing).
KEYWORD == <<"s","o","h","r","a","n","i">>
HasKeyword(u) ==
    /\ u # None
    /\ \E i \in 1..Len(u) : OccursAt(Lower(u), KEYWORD, i)

\* Arguments of the tool: body: str, project_name: str | None, title: str | None.
ToolArgs(bodies, projects, titles) ==
    { [body |-> b, project_name |-> p, title |-> t] :
        b \in bodies, p \in projects, t \in titles }

\* The inputs of the one-call-at-a-time specification.
SeqRequests ==
    HttpRequests(AuthValues, {None, QUERY_TOKEN}, {None, CUSTOM_TOKEN})
        \cup {NoHttpRequest}
SeqArgs == ToolArgs({<<>>, <<"t","e","x","t">>}, {None, <<>>, <<"B">>}, {None, <<"T">>})
SeqStatuses == {200, 204, 302, 399, 400, 401, 403, 404, 500}

\* The inputs of the concurrent specification.
ConcRequests ==
    HttpRequests({None, <<"B","e","a","r","e","r"," ","x">>,
                  <<"b","e","a","r","e","r"," ","y">>}, {None}, {None})
ConcArgs == ToolArgs({<<"t","e","x","t">>}, {None, <<"B">>}, {None})
ConcStatuses == {200, 403}

\* os.getenv gives None for an unset variable and "" for one set to nothing.
EnvValues == {None, <<>>, ENV_TOKEN}

\* ------------------------------------------------ get_integration_token

\* The headers read from one process-wide "current request" slot, which the
\* latest call to arrive has overwritten.
get_http_headers_global(c) ==
    LET active == {d \in Calls : pc[d] # "idle"}
        last == CHOOSE d \in active : \A e \in active : e <= d
    IN  IF request[last].http THEN request[last].headers
        ELSE [authorization |-> None, custom |-> None]

\* get_http_headers(): the headers of the current request, {} without one.
get_http_headers(c) ==
    IF request[c].http THEN request[c].headers
    ELSE [authorization |-> None, custom |-> None]

\* The header lookup with the remainder taken as it stands, not stripped.
token_from_header_no_strip(auth) ==
    IF ~Truthy(auth) THEN None
    ELSE LET parts == Split1(auth)
         IN  IF Len(parts) = 2 /\ Lower(parts[1]) = BEARER
             THEN LET candidate == parts[2]
                  IN  IF Truthy(candidate) THEN candidate ELSE None
             ELSE None

\* The bearer token of an Authorization header value, None when the value
\* is not "Bearer <token>".
token_from_header(auth) ==
    IF ~Truthy(auth) THEN None
    ELSE LET parts == Split1(auth)
         IN  IF Len(parts) = 2 /\ Lower(parts[1]) = BEARER
             THEN LET candidate == Strip(parts[2])
                  IN  IF Truthy(candidate) THEN candidate ELSE None
             ELSE None

\* The lookup with the environment variable consulted before the header.
get_integration_token_env_first(c) ==
    LET auth == get_http_headers(c).authorization
        from_header == token_from_header(auth)
    IN  IF Truthy(env_token) THEN env_token
        ELSE IF Truthy(from_header) THEN from_header
        ELSE None

get_integration_token(c) ==
    LET auth == get_http_headers(c).authorization
        from_header == token_from_header(auth)
    IN  IF Truthy(from_header) THEN from_header
        ELSE IF Truthy(env_token) THEN env_token
        ELSE None

\* ---------------------------------------------------- ai_organiser_save

\* len(body)
body_length(c) == Len(args[c].body)

\* The payload with the destination of the utterance used when project_name
\* gives none.
PayloadWithParsedProject(c) ==
    LET payload == [text |-> args[c].body, sourceUrl |-> None, sourceTitle |-> None]
    IN  IF Truthy(args[c].project_name)
        THEN payload @@ ("project" :> args[c].project_name)
        ELSE IF utterance[c] = UTT_SAVE_TO_A
        THEN payload @@ ("project" :> <<"A">>)
        ELSE payload

\* The payload with `project` always set, whatever project_name is.
PayloadAlwaysProject(c) ==
    [text |-> args[c].body, sourceUrl |-> None, sourceTitle |-> None]
        @@ ("project" :> args[c].project_name)

\* The payload of the POST: `project` is a key only for a truthy project_name.
Payload(c) ==
    LET payload == [text |-> args[c].body, sourceUrl |-> None, sourceTitle |-> None]
    IN  IF Truthy(args[c].project_name)
        THEN payload @@ ("project" :> args[c].project_name)
        ELSE payload

\* The headers with the shared anon key sent as the per-account key too.
HeadersAnonKeyAsApiKey(c) ==
    [content_type |-> "application/json",
     authorization |-> <<"B","e","a","r","e","r"," ">> \o SUPABASE_ANON_KEY,
     x_api_key |-> SUPABASE_ANON_KEY]

\* The headers of the POST.
Headers(c) ==
    [content_type |-> "application/json",
     authorization |-> <<"B","e","a","r","e","r"," ">> \o SUPABASE_ANON_KEY,
     x_api_key |-> integration_token[c]]

\* res.json(), and res.text when the body is not JSON.
ResponseData(r) == [json |-> r.json_ok, text |-> r.text]

\* The dict returned when SUPABASE_ANON_KEY is empty.
RetNoAnonKey(c) ==
    [saved |-> FALSE, error_type |-> "backend_error",
     message_for_model |-> "backend is misconfigured, copy the content manually",
     error |-> "SUPABASE_ANON_KEY is not configured.",
     body_length |-> body_length(c)]

\* The dict returned when no integration token was found.
RetNoToken(c) ==
    [saved |-> FALSE, error_type |-> "auth_error",
     message_for_model |-> "no valid integration token, ask the user to reconnect",
     error |-> "No integration token available",
     body_length |-> body_length(c)]

\* The status test narrowed to 401: a 403 reads as a backend error.
RetHttpErrorOnly401(c, r) ==
    [saved |-> FALSE,
     error_type |-> IF r.status_code = 401 THEN "auth_error" ELSE "backend_error",
     message_for_model |-> "backend returned an error, the content can be copied manually",
     supabase_status |-> r.status_code,
     supabase_response |-> ResponseData(r),
     body_length |-> body_length(c)]

\* The dict returned for a response with status_code >= 400.
RetHttpError(c, r) ==
    [saved |-> FALSE,
     error_type |-> IF r.status_code \in {401, 403} THEN "auth_error" ELSE "backend_error",
     message_for_model |->
        IF r.status_code \in {401, 403}
        THEN "token no longer accepted, ask the user to reconnect"
        ELSE "backend returned an error, the content can be copied manually",
     supabase_status |-> r.status_code,
     supabase_response |-> ResponseData(r),
     body_length |-> body_length(c)]

\* The dict returned for a response with status_code < 400.
RetSuccess(c, r) ==
    [saved |-> TRUE, error_type |-> "none",
     project_name |-> IF Truthy(args[c].project_name) THEN args[c].project_name
                      ELSE <<"I","n","b","o","x">>,
     title |-> args[c].title,
     body_length |-> body_length(c),
     truncated |-> FALSE,
     supabase_response |-> ResponseData(r)]

\* The dict returned by the except clause around the POST.
RetException(c, e) ==
    [saved |-> FALSE, error_type |-> "backend_error",
     message_for_model |-> "network or backend error, copy the content manually",
     error |-> e,
     body_length |-> body_length(c)]

\* The value of ret while the call has not returned.
NoRet == [saved |-> FALSE, error_type |-> "pending"]
NoRes == [status_code |-> 0, json_ok |-> FALSE, text |-> <<>>, exception |-> "no response"]
NoArgs == [body |-> <<>>, project_name |-> None, title |-> None]

\* The early return dropped: no token counts as missing.
TokenNeverMissing(tok) == FALSE

\* `not integration_token`
TokenMissing(tok) == ~Truthy(tok)

\* The tool is invoked: the call's request, arguments and the utterance behind
\* it are fixed, the body is measured and the anon key is checked.
Start(c, requests, argsets, utterances) ==
    /\ pc[c] = "idle"
    /\ \E r \in requests, a \in argsets, u \in utterances :
        /\ request' = [request EXCEPT ![c] = r]
        /\ args' = [args EXCEPT ![c] = a]
        /\ utterance' = [utterance EXCEPT ![c] = u]
        /\ IF ~Truthy(SUPABASE_ANON_KEY)
           THEN /\ pc' = [pc EXCEPT ![c] = "done"]
                /\ ret' = [ret EXCEPT ![c] =
                     [RetNoAnonKey(c) EXCEPT !.body_length = Len(a.body)]]
           ELSE /\ pc' = [pc EXCEPT ![c] = "resolve"]
                /\ ret' = ret
    /\ UNCHANGED <<env_token, integration_token, sent, res>>

\* Resolve with the keyword gate of the specification's orchestrator added: a
\* call whose utterance lacks the keyword returns a skipped outcome.
ResolveWithKeywordGate(c) ==
    /\ pc[c] = "resolve"
    /\ LET tok == get_integration_token(c)
       IN  /\ integration_token' = [integration_token EXCEPT ![c] = tok]
           /\ IF TokenMissing(tok)
              THEN /\ pc' = [pc EXCEPT ![c] = "done"]
                   /\ ret' = [ret EXCEPT ![c] = RetNoToken(c)]
              ELSE IF ~HasKeyword(utterance[c])
              THEN /\ pc' = [pc EXCEPT ![c] = "done"]
                   /\ ret' = [ret EXCEPT ![c] = [saved |-> FALSE, error_type |-> "skipped"]]
              ELSE /\ pc' = [pc EXCEPT ![c] = "post"]
                   /\ ret' = ret
    /\ UNCHANGED <<env_token, request, args, utterance, sent, res>>

\* integration_token = get_integration_token(), and the early return without one.
Resolve(c) ==
    /\ pc[c] = "resolve"
    /\ LET tok == get_integration_token(c)
       IN  /\ integration_token' = [integration_token EXCEPT ![c] = tok]
           /\ IF TokenMissing(tok)
              THEN /\ pc' = [pc EXCEPT ![c] = "done"]
                   /\ ret' = [ret EXCEPT ![c] = RetNoToken(c)]
              ELSE /\ pc' = [pc EXCEPT ![c] = "post"]
                   /\ ret' = ret
    /\ UNCHANGED <<env_token, request, args, utterance, sent, res>>

\* supabase_client.post(...) sends the request; the call blocks on the answer.
Post(c) ==
    /\ pc[c] = "post"
    /\ sent' = [sent EXCEPT ![c] =
                  Append(@, [from |-> c, json |-> Payload(c), headers |-> Headers(c)])]
    /\ pc' = [pc EXCEPT ![c] = "wait"]
    /\ UNCHANGED <<env_token, request, args, utterance, integration_token, res, ret>>

\* The backend answers with a status; the tool maps it and returns.
Respond(c, statuses) ==
    /\ pc[c] = "wait"
    /\ \E s \in statuses, j \in BOOLEAN :
        LET r == [status_code |-> s, json_ok |-> j, text |-> <<"r">>,
                  exception |-> "none"]
        IN  /\ res' = [res EXCEPT ![c] = r]
            /\ ret' = [ret EXCEPT ![c] =
                         IF s >= 400 THEN RetHttpError(c, r) ELSE RetSuccess(c, r)]
    /\ pc' = [pc EXCEPT ![c] = "done"]
    /\ UNCHANGED <<env_token, request, args, utterance, integration_token, sent>>

\* The except clause missing: the exception leaves the tool.
HandleExceptionEscapes(c, e) ==
    /\ ret' = ret
    /\ pc' = [pc EXCEPT ![c] = "raised"]

\* The except clause sending the request again.
HandleExceptionRetries(c, e) ==
    /\ ret' = ret
    /\ pc' = [pc EXCEPT ![c] = "post"]

\* except Exception as e: the tool returns the network-error dict.
HandleException(c, e) ==
    /\ ret' = [ret EXCEPT ![c] = RetException(c, e)]
    /\ pc' = [pc EXCEPT ![c] = "done"]

\* The POST raises (connection failure, or the 10 s timeout).
PostRaises(c) ==
    /\ pc[c] = "wait"
    /\ \E e \in {"ConnectError", "ReadTimeout"} :
        /\ res' = [res EXCEPT ![c] = [NoRes EXCEPT !.exception = e]]
        /\ HandleException(c, e)
    /\ UNCHANGED <<env_token, request, args, utterance, integration_token, sent>>

\* The returned dict has been delivered; the worker takes the next call.
Return(c) ==
    /\ pc[c] = "done"
    /\ pc' = [pc EXCEPT ![c] = "idle"]
    /\ request' = [request EXCEPT ![c] = NoHttpRequest]
    /\ args' = [args EXCEPT ![c] = NoArgs]
    /\ utterance' = [utterance EXCEPT ![c] = None]
    /\ integration_token' = [integration_token EXCEPT ![c] = None]
    /\ sent' = [sent EXCEPT ![c] = <<>>]
    /\ res' = [res EXCEPT ![c] = NoRes]
    /\ ret' = [ret EXCEPT ![c] = NoRet]
    /\ UNCHANGED env_token

Init ==
    /\ env_token \in EnvValues
    /\ request = [c \in Calls |-> NoHttpRequest]
    /\ args = [c \in Calls |-> NoArgs]
    /\ utterance = [c \in Calls |-> None]
    /\ pc = [c \in Calls |-> "idle"]
    /\ integration_token = [c \in Calls |-> None]
    /\ sent = [c \in Calls |-> <<>>]
    /\ res = [c \in Calls |-> NoRes]
    /\ ret = [c \in Calls |-> NoRet]

\* One worker handles one call after another, over the full input space.
Next ==
    \/ Start(1, SeqRequests, SeqArgs, Utterances)
    \/ Resolve(1)
    \/ Post(1)
    \/ Respond(1, SeqStatuses)
    \/ PostRaises(1)
    \/ Return(1)

Spec == Init /\ [][Next]_vars

\* NumCalls calls run concurrently, each once, in any interleaving.
ConcNext ==
    \E c \in Calls :
        \/ Start(c, ConcRequests, ConcArgs, {UTT_SAVE})
        \/ Resolve(c)
        \/ Post(c)
        \/ Respond(c, ConcStatuses)
        \/ PostRaises(c)

SpecConc == Init /\ [][ConcNext]_vars

\* ---------------------------------------------------------------- claims

\* Call c got an HTTP response (the POST did not raise).
Answered(c) == pc[c] = "done" /\ sent[c] # <<>> /\ res[c].exception = "none"

\* The Authorization value of call c's request, None outside an HTTP request.
AuthOf(c) == IF request[c].http THEN request[c].headers.authorization ELSE None

AUTH_BEARER_X == <<"B","e","a","r","e","r"," ","x">>
AUTH_BEARER_Y == <<"b","e","a","r","e","r"," ","y">>

\* Authorization values that carry no bearer credential: absent, empty, a
\* wrong scheme, and a Bearer scheme with an empty or blank remainder.
NoBearerAuths ==
    { None, <<>>,
      <<"B","a","s","i","c"," ","x">>,
      <<"B","e","a","r","e","r"," ">>,
      <<"B","e","a","r","e","r"," "," ","\t">> }

\* C1 as stated: the backend is called only if the trigger keyword was in the
\* call's utterance; a call whose utterance lacks the keyword, or has no
\* utterance, sends no request.
C1_NoRequestWithoutKeyword ==
    \A c \in Calls : ~HasKeyword(utterance[c]) => sent[c] = <<>>

\* C1 amended: the tool takes no utterance and has no skipped outcome; a call
\* whose utterance lacks the keyword (or is missing) sends its request exactly
\* when a token was resolved, and ends in one of the three ordinary outcomes.
C1_RequestIffTokenWhateverUtterance ==
    \A c \in Calls :
        (pc[c] = "done" /\ ~HasKeyword(utterance[c])) =>
            /\ (sent[c] # <<>>) <=> Truthy(integration_token[c])
            /\ ret[c].error_type \in {"none", "auth_error", "backend_error"}

\* C1 witness: a call made for "napishi plan" has POSTed and saved.
C1_Witness ==
    \E c \in Calls :
        /\ pc[c] = "done" /\ utterance[c] = UTT_PLAN
        /\ Len(sent[c]) = 1 /\ ret[c].saved

\* The credential C2 as stated expects: the first non-empty of query
\* parameter, custom header, bearer header, environment.
ClaimedCredential(c) ==
    IF request[c].http /\ Truthy(request[c].query_token) THEN request[c].query_token
    ELSE IF request[c].http /\ Truthy(request[c].headers.custom)
    THEN request[c].headers.custom
    ELSE IF Truthy(token_from_header(AuthOf(c))) THEN token_from_header(AuthOf(c))
    ELSE IF Truthy(env_token) THEN env_token
    ELSE None

\* C2 as stated: the resolved credential is the highest-priority non-empty
\* source in the order query parameter, custom header, bearer header,
\* environment fallback.
C2_QueryCustomBearerEnvOrder ==
    \A c \in Calls :
        pc[c] \in {"post", "wait", "done"} =>
            integration_token[c] = ClaimedCredential(c)

\* C2 amended: only the bearer header and then the environment fallback are
\* consulted: a bearer credential wins over the fallback, without one the
\* non-empty fallback is taken, else nothing; the query parameter and the
\* custom header never supply the credential.
C2_BearerThenEnvOnly ==
    \A c \in Calls :
        pc[c] \in {"post", "wait", "done"} =>
            /\ AuthOf(c) = AUTH_BEARER_X => integration_token[c] = TOKEN_X
            /\ AuthOf(c) = AUTH_BEARER_Y => integration_token[c] = TOKEN_Y
            /\ AuthOf(c) \in NoBearerAuths =>
                   integration_token[c] =
                       IF env_token \in {None, <<>>} THEN None ELSE env_token
            /\ integration_token[c] \notin {QUERY_TOKEN, CUSTOM_TOKEN}

\* C2 witness: query token, custom header, bearer header and fallback are all
\* present and the bearer credential was taken.
C2_Witness ==
    \E c \in Calls :
        /\ pc[c] = "post" /\ request[c].http
        /\ request[c].query_token = QUERY_TOKEN
        /\ request[c].headers.custom = CUSTOM_TOKEN
        /\ AuthOf(c) = AUTH_BEARER_X
        /\ env_token = ENV_TOKEN
        /\ integration_token[c] = TOKEN_X

\* C3: when neither the bearer header nor the fallback (nor any other source)
\* yields a non-empty value, the call returns saved = false with auth_error
\* and sends no request.
C3_NoCredentialIsAuthError ==
    \A c \in Calls :
        ( /\ pc[c] \in {"post", "wait", "done"}
          /\ AuthOf(c) \in NoBearerAuths
          /\ request[c].query_token = None
          /\ request[c].headers.custom = None
          /\ env_token \in {None, <<>>} ) =>
            /\ pc[c] = "done"
            /\ ret[c].saved = FALSE
            /\ ret[c].error_type = "auth_error"
            /\ sent[c] = <<>>

\* C3 witness: a call with no Authorization header and no fallback returned.
C3_Witness ==
    \E c \in Calls :
        /\ pc[c] = "done" /\ request[c].http
        /\ AuthOf(c) = None /\ request[c].query_token = None
        /\ request[c].headers.custom = None /\ env_token = None
        /\ ret[c].error_type = "auth_error"

\* C4: the outcome of an answered call is decided by the status alone: 401 and
\* 403 give auth_error, any other status >= 400 gives backend_error, a status
\* below 400 gives success, whether or not the response body is JSON.
C4_StatusMapping ==
    \A c \in Calls :
        Answered(c) =>
            LET s == res[c].status_code
            IN  /\ s \in {401, 403} =>
                    ret[c].saved = FALSE /\ ret[c].error_type = "auth_error"
                /\ (s >= 400 /\ s \notin {401, 403}) =>
                    ret[c].saved = FALSE /\ ret[c].error_type = "backend_error"
                /\ s < 400 => ret[c].saved = TRUE /\ ret[c].error_type = "none"

\* C4 witness: a 403 whose body is not JSON was mapped to auth_error.
C4_Witness ==
    \E c \in Calls :
        /\ Answered(c) /\ res[c].status_code = 403 /\ ~res[c].json_ok
        /\ ret[c].error_type = "auth_error"

\* The destination a payload carries, None when it has no `project` key.
Destination(json) == IF "project" \in DOMAIN json THEN json["project"] ELSE None

\* C5 as stated: the destination sent is the explicit one if non-empty,
\* otherwise the one parsed from the utterance; for "sohrani v <A>" without an
\* explicit destination it is "A", with explicit destination "B" it is "B".
C5_ParsedDestinationWhenNoExplicit ==
    \A c \in Calls :
        (sent[c] # <<>> /\ utterance[c] = UTT_SAVE_TO_A) =>
            Destination(sent[c][1].json) =
                IF Truthy(args[c].project_name) THEN args[c].project_name
                ELSE <<"A">>

\* C5 amended: the destination sent is the explicit project_name if it is
\* non-empty and otherwise none; the utterance is never parsed, so
\* "sohrani v <A>" with explicit "B" sends "B" and without one sends none.
C5_ExplicitDestinationOrNone ==
    \A c \in Calls :
        sent[c] # <<>> =>
            Destination(sent[c][1].json) =
                IF args[c].project_name \in {None, <<>>} THEN None
                ELSE args[c].project_name

\* C5 witness: "sohrani v <A>" with explicit destination "B" sent "B".
C5_Witness ==
    \E c \in Calls :
        /\ sent[c] # <<>> /\ utterance[c] = UTT_SAVE_TO_A
        /\ args[c].project_name = <<"B">>
        /\ Destination(sent[c][1].json) = <<"B">>

\* C6: a request carries the `project` field exactly when a non-empty
\* destination was given, never as an empty string or null, and its `text`
\* is the caller's body unchanged.
C6_ProjectFieldOnlyWhenNonEmpty ==
    \A c \in Calls :
        \A i \in 1..Len(sent[c]) :
            LET json == sent[c][i].json
            IN  /\ ("project" \in DOMAIN json) <=>
                       (args[c].project_name # None /\ args[c].project_name # <<>>)
                /\ "project" \in DOMAIN json =>
                       json["project"] # None /\ json["project"] # <<>>
                /\ json["text"] = args[c].body

\* C6 witness: a request for an empty-string project_name went out without
\* the `project` field.
C6_Witness ==
    \E c \in Calls :
        /\ sent[c] # <<>> /\ args[c].project_name = <<>>
        /\ "project" \notin DOMAIN sent[c][1].json
        /\ sent[c][1].json["text"] = <<"t","e","x","t">>

\* C7 as stated: no exception leaves the call, and a failure at any step
\* (the request, its timeout, decoding the response) gives saved = false, a
\* transport exception giving backend_error.
C7_EveryFailureNotSaved ==
    \A c \in Calls :
        /\ pc[c] # "raised"
        /\ (pc[c] = "done" /\ res[c].exception \in {"ConnectError", "ReadTimeout"}) =>
               ret[c].saved = FALSE /\ ret[c].error_type = "backend_error"
        /\ (Answered(c) /\ ~res[c].json_ok) => ret[c].saved = FALSE

\* C7 amended: no exception leaves the call; a transport exception or timeout
\* gives saved = false with backend_error; a response body that fails to
\* decode as JSON is replaced by its raw text and leaves the outcome to the
\* status, so that with a status below 400 the call still reports saved = true.
\* A call that has not returned always has a next step to take.
C7_FailuresCaughtDecodeAbsorbed ==
    \A c \in Calls :
        /\ pc[c] # "raised"
        /\ (pc[c] = "done" /\ res[c].exception \in {"ConnectError", "ReadTimeout"}) =>
               ret[c].saved = FALSE /\ ret[c].error_type = "backend_error"
        /\ (Answered(c) /\ ~res[c].json_ok) =>
               /\ ret[c].saved = (res[c].status_code < 400)
               /\ ret[c].supabase_response = [json |-> FALSE, text |-> res[c].text]
        /\ pc[c] \in {"resolve", "post", "wait"} =>
               ENABLED (Resolve(c) \/ Post(c) \/ Respond(c, SeqStatuses) \/ PostRaises(c))

\* C7 witness: the POST timed out and the call returned backend_error.
C7_Witness ==
    \E c \in Calls :
        /\ pc[c] = "done" /\ res[c].exception = "ReadTimeout"
        /\ ret[c].saved = FALSE /\ ret[c].error_type = "backend_error"

\* The requests sent by all calls, and the calls that have started.
AllSent == UNION {{<<c, i>> : i \in DOMAIN sent[c]} : c \in Calls}
StartedCalls == {c \in Calls : pc[c] # "idle"}

\* C8: each call sends at most one request, also after an exception, a
\* timeout or a status >= 400, so the requests never outnumber the calls.
C8_AtMostOneRequestPerCall ==
    /\ \A c \in Calls : Len(sent[c]) <= 1
    /\ Cardinality(AllSent) <= Cardinality(StartedCalls)
    /\ \A c \in Calls :
        (sent[c] # <<>> /\ (res[c].exception # "no response")) => pc[c] = "done"

\* C8 witness: two calls have each sent their one request, one timed out and
\* the other was answered 403, and both have returned.
C8_Witness ==
    \E c, d \in Calls :
        /\ pc[c] = "done" /\ res[c].exception = "ReadTimeout" /\ Len(sent[c]) = 1
        /\ pc[d] = "done" /\ Answered(d) /\ res[d].status_code = 403 /\ Len(sent[d]) = 1

\* What call c was given: its request, its arguments and the backend's answer.
InputsOf(c) == <<request[c], args[c], res[c]>>

\* C10: in every interleaving the secret a call sends is the one of its own
\* request (or the process-wide fallback when it has none), and two calls given
\* the same request, arguments and answer return the same result and send the
\* same payload and secret, whatever else ran meanwhile.
C10_CallsDoNotInteract ==
    /\ \A c \in Calls :
        \A i \in 1..Len(sent[c]) :
            LET key == sent[c][i].headers.x_api_key
            IN  /\ AuthOf(c) = AUTH_BEARER_X => key = TOKEN_X
                /\ AuthOf(c) = AUTH_BEARER_Y => key = TOKEN_Y
                /\ AuthOf(c) = None => key = env_token
                /\ sent[c][i].from = c
    /\ \A c, d \in Calls :
        (pc[c] = "done" /\ pc[d] = "done" /\ InputsOf(c) = InputsOf(d)) =>
            /\ ret[c] = ret[d]
            /\ Len(sent[c]) = Len(sent[d])
            /\ \A i \in 1..Len(sent[c]) :
                /\ sent[c][i].json = sent[d][i].json
                /\ sent[c][i].headers = sent[d][i].headers

\* C10 witness: two calls of different accounts are in flight at once, each
\* with its own secret on the wire.
C10_Witness ==
    \E c, d \in Calls :
        /\ pc[c] = "wait" /\ pc[d] = "wait"
        /\ sent[c][1].headers.x_api_key = TOKEN_X
        /\ sent[d][1].headers.x_api_key = TOKEN_Y

\* The credential each Authorization value of the model carries, read off the
\* value by hand: the trimmed remainder after a "Bearer" scheme in any letter
\* case and one space; None for an absent or empty value, another scheme, a
\* scheme with nothing or only whitespace after it, and a value whose first
\* part (up to the first space) is not the scheme word.
ExpectedBearer(auth) ==
    CASE auth = <<"B","e","a","r","e","r"," ","x">> -> <<"x">>
      [] auth = <<"b","e","a","r","e","r"," ","y">> -> <<"y">>
      [] auth = <<"B","E","A","R","E","R"," "," ","x"," ">> -> <<"x">>
      [] auth = <<"B","e","a","r","e","r"," ","x"," ","y">> -> <<"x"," ","y">>
      [] OTHER -> None

\* C11: the resolved credential is absent or a non-empty string, never "";
\* a bearer header counts only with the scheme "Bearer" (any letter case) and
\* a remainder that is non-empty once trimmed, which is then the credential;
\* any other header, and a call outside an HTTP request, falls through to the
\* fallback secret, an empty fallback counting as none.
C11_ResultAbsentOrNonEmpty ==
    \A c \in Calls :
        pc[c] \in {"post", "wait", "done"} =>
            LET tok == integration_token[c]
                fallback == IF env_token \in {None, <<>>} THEN None ELSE env_token
            IN  /\ tok # <<>>
                /\ tok # None => Len(tok) > 0 /\ Strip(tok) = tok
                /\ tok = IF ExpectedBearer(AuthOf(c)) # None
                         THEN ExpectedBearer(AuthOf(c))
                         ELSE fallback
                /\ ~request[c].http => tok = fallback

\* C11 witness: a Bearer header with a whitespace-only remainder was passed
\* over and the fallback secret taken.
C11_Witness ==
    \E c \in Calls :
        /\ pc[c] = "post"
        /\ AuthOf(c) = <<"B","e","a","r","e","r"," "," ","\t">>
        /\ env_token = ENV_TOKEN
        /\ integration_token[c] = ENV_TOKEN

\* C12: in every returned outcome saved = true holds exactly when error_type
\* is "none", and exactly when the call sent a request that was answered with
\* a status below 400; an outcome with saved = false has error_type auth_error
\* or backend_error and a non-empty message_for_model; every request sent
\* carries the call's resolved credential as x-api-key.
C12_OutcomeShape ==
    \A c \in Calls :
        /\ pc[c] = "done" =>
            /\ ret[c].saved \in BOOLEAN
            /\ ret[c].saved <=> ret[c].error_type = "none"
            /\ ret[c].saved <=>
                   ( /\ Len(sent[c]) = 1
                     /\ res[c].exception = "none"
                     /\ res[c].status_code < 400 )
            /\ ~ret[c].saved =>
                   /\ ret[c].error_type \in {"auth_error", "backend_error"}
                   /\ "message_for_model" \in DOMAIN ret[c]
                   /\ ret[c]["message_for_model"] # ""
        /\ \A i \in DOMAIN sent[c] :
            /\ sent[c][i].headers.x_api_key = integration_token[c]
            /\ integration_token[c] \notin {None, <<>>}

\* C12 witness: a call that sent the fallback secret as x-api-key was answered
\* 204 and returned saved = true with error_type "none".
C12_Witness ==
    \E c \in Calls :
        /\ pc[c] = "done" /\ Len(sent[c]) = 1
        /\ sent[c][1].headers.x_api_key = ENV_TOKEN
        /\ res[c].status_code = 204
        /\ ret[c].saved /\ ret[c].error_type = "none"

====
